---- MODULE Spec2Model ----
(***************************************************************************)
(* CowVec (src/vec.rs): a copy-on-write vector kept as a trie of           *)
(* fixed-size blocks plus a tail buffer.  Nodes live in a heap of          *)
(* reference-counted cells (Arc); a CowVec is a value holding a root       *)
(* Node, a depth, the tail Arc and a length.                               *)
(*                                                                         *)
(* The branching factor is scaled: SHIFT is 2 here and 5 in the source,    *)
(* NODE_SIZE is 2^SHIFT as in the source.  Every threshold of the code     *)
(* (B, 2B, B*B+B, 2*B*B+B) scales with it.                                 *)
(***************************************************************************)
EXTENDS Integers, Sequences, FiniteSets, TLC

SHIFT == 2
NODE_SIZE == 2 ^ SHIFT
MASK == NODE_SIZE - 1

\* Bounds of the exploration.
MaxLen == 37        \* pushes stop at this length
MaxEdits == 1       \* get_mut writes and swap_removes in one run
MaxAfter == 1       \* calls made after the first write, swap_remove or lost element
MaxVecs == 2        \* CowVec values alive at once
CowMaxLen == 22     \* pushes stop at this length when clones are taken
CowMaxSteps == 3    \* calls made after the first clone
RangeMaxLen == 9    \* pushes stop at this length when any index is offered
PathMaxWrites == 2  \* writes made after the clone when copies are counted
WriteVal == MaxLen + 1

OK == "ok"
Vecs == 1 .. MaxVecs
NoVec == [root |-> [tag |-> "Empty", ptr |-> 0], depth |-> 0, tail |-> 0, len |-> 0, live |-> FALSE]

VARIABLES
  heap,      \* Arc cells: id -> [items, rc]
  vecs,      \* the CowVec values: k -> [root, depth, tail, len, live]
  status,    \* OK, or the message of the panic that ended the program
  ret,       \* the last call and what it returned
  build,     \* what ArrayVec::push does when full in this build
  edits,     \* number of get_mut writes and swap_removes so far
  steps,     \* number of calls counted against MaxAfter or CowMaxSteps
  logical,   \* k -> the sequence the calls made so far should have left
  pp         \* push-then-pop script: phase, values pushed, pops done

vars == <<heap, vecs, status, ret, build, edits, steps, logical, pp>>

\* `let x = e; rest`: e is evaluated once and rest sees its value.
Bind(x, rest(_)) == rest(x)

(***************************************************************************)
(* Node<V>, Option<V>                                                      *)
(***************************************************************************)
Empty == [tag |-> "Empty", ptr |-> 0]
Internal(id) == [tag |-> "Internal", ptr |-> id]
External(id) == [tag |-> "External", ptr |-> id]

None == [some |-> FALSE, val |-> 0]
Some(v) == [some |-> TRUE, val |-> v]

(***************************************************************************)
(* Arc: allocation, clone, drop, make_mut                                  *)
(***************************************************************************)
NewId(h) ==
  CHOOSE i \in 1 .. (Cardinality(DOMAIN h) + 1) :
    /\ i \notin DOMAIN h
    /\ \A j \in 1 .. (i - 1) : j \in DOMAIN h

\* Arc::new(items)
ArcNew(h, items) ==
  LET id == NewId(h)
  IN [h |-> (id :> [items |-> items, rc |-> 1]) @@ h, id |-> id]

\* Node::clone: Arc::clone bumps the strong count; Empty has none.
NodeClone(h, n) ==
  IF n.tag = "Empty" THEN h ELSE [h EXCEPT ![n.ptr].rc = @ + 1]

RECURSIVE CloneAll(_, _)
CloneAll(h, items) ==
  IF items = <<>> THEN h
  ELSE CloneAll(NodeClone(h, Head(items)), Tail(items))

RECURSIVE DropNode(_, _)
RECURSIVE DropAll(_, _)
\* drop of a Node: the strong count falls; the last owner frees the cell and
\* drops the children of an Internal node.
DropNode(h, n) ==
  IF n.tag = "Empty" THEN h
  ELSE IF h[n.ptr].rc > 1 THEN [h EXCEPT ![n.ptr].rc = @ - 1]
  ELSE LET kids == IF n.tag = "Internal" THEN h[n.ptr].items ELSE <<>>
           h1 == [x \in DOMAIN h \ {n.ptr} |-> h[x]]
       IN DropAll(h1, kids)
DropAll(h, items) ==
  IF items = <<>> THEN h
  ELSE DropAll(DropNode(h, Head(items)), Tail(items))

\* A make_mut that skips the ownership test and always writes in place.
MakeMutInPlace(h, n) == [h |-> h, id |-> n.ptr]

\* A make_mut that clones the contents into a new cell even when this is the
\* only owner.
MakeMutAlways(h, n) ==
  LET kids == IF n.tag = "Internal" THEN h[n.ptr].items ELSE <<>>
  IN ArcNew(CloneAll([h EXCEPT ![n.ptr].rc = @ - 1], kids), h[n.ptr].items)

\* Arc::make_mut(&mut arc): in place when this is the only owner; otherwise
\* the contents are cloned into a new cell (children gain an owner) and this
\* owner leaves the old cell.
MakeMut(h, n) ==
  IF h[n.ptr].rc = 1 THEN [h |-> h, id |-> n.ptr]
  ELSE LET kids == IF n.tag = "Internal" THEN h[n.ptr].items ELSE <<>>
       IN ArcNew(CloneAll([h EXCEPT ![n.ptr].rc = @ - 1], kids), h[n.ptr].items)

\* ArrayVec::push on a cell: appends when there is room.  When the vector is
\* full the outcome depends on the arrayvec release the build links: the
\* element is handed back (and dropped here, the result being ignored), or
\* the call panics.
AvPush(h, id, item, mode) ==
  IF Len(h[id].items) < NODE_SIZE
  THEN [h |-> [h EXCEPT ![id].items = Append(@, item)], err |-> OK]
  ELSE IF mode = "panic"
  THEN [h |-> h, err |-> "arrayvec: capacity exceeded"]
  ELSE [h |-> DropNode(h, item), err |-> OK]

Last(s) == s[Len(s)]
Front(s) == SubSeq(s, 1, Len(s) - 1)
(***************************************************************************)
(* push                                                                    *)
(***************************************************************************)
\* The last child of cell `node` after n.make_internal_mut(): the slot follows
\* the Arc when make_mut moved it to a new cell.
SetLast(h, node, n) ==
  [h EXCEPT ![node].items = [@ EXCEPT ![Len(@)] = n]]

RECURSIVE push_external(_, _, _, _, _)
RECURSIVE new_path(_, _, _, _, _)

new_path(h, node, depth, ext, mode) ==
  IF depth = 1 THEN AvPush(h, node, ext, mode)
  ELSE
    Bind(ArcNew(h, <<>>), LAMBDA a :
    Bind(AvPush(a.h, node, Internal(a.id), mode), LAMBDA p :
      IF p.err # OK THEN p
      ELSE IF p.h[node].items = <<>>
      THEN [h |-> p.h, err |-> "called Option::unwrap() on a None value"]
      ELSE IF Last(p.h[node].items).tag # "Internal"
      THEN [h |-> p.h, err |-> "expected internal node"]
      ELSE
        Bind(MakeMut(p.h, Last(p.h[node].items)), LAMBDA mm :
          IF depth = 0
          THEN [h |-> SetLast(mm.h, node, Internal(mm.id)),
                err |-> "attempt to subtract with overflow"]
          ELSE new_path(SetLast(mm.h, node, Internal(mm.id)), mm.id,
                        depth - 1, ext, mode))))

push_external(h, node, depth, ext, mode) ==
  IF depth = 1 THEN AvPush(h, node, ext, mode)
  ELSE IF h[node].items # <<>>
  THEN
    IF Last(h[node].items).tag # "Internal"
    THEN [h |-> h, err |-> "expected internal node"]
    ELSE
      Bind(MakeMut(h, Last(h[node].items)), LAMBDA mm :
        IF depth = 0
        THEN [h |-> SetLast(mm.h, node, Internal(mm.id)),
              err |-> "attempt to subtract with overflow"]
        ELSE push_external(SetLast(mm.h, node, Internal(mm.id)), mm.id,
                           depth - 1, ext, mode))
  ELSE new_path(h, node, depth, ext, mode)

\* CowVec::new
new(h) ==
  LET a == ArcNew(h, <<>>)
  IN [h |-> a.h,
      c |-> [root |-> Empty, depth |-> 0, tail |-> a.id, len |-> 0, live |-> TRUE]]

\* The root-full test of push as it would read if the wrap were taken one
\* child early.
RootHasRoomEarly(h, c) ==
  c.root.tag = "Internal" /\ Len(h[c.root.ptr].items) < NODE_SIZE - 1

\* The root-full test of push without the count of children: an Internal
\* root is never wrapped.
RootHasRoomAlways(h, c) == c.root.tag = "Internal"

\* push, lines 58-59: root is Internal and has fewer than NODE_SIZE children.
RootHasRoom(h, c) ==
  c.root.tag = "Internal" /\ Len(h[c.root.ptr].items) < NODE_SIZE

\* The tail-full test of push as it would read if the tail were grafted one
\* element early.
TailHasRoomEarly(h, c) == Len(h[c.tail].items) < NODE_SIZE - 1

\* push, line 42: the tail has fewer than NODE_SIZE elements.
TailHasRoom(h, c) == Len(h[c.tail].items) < NODE_SIZE

\* CowVec::push
push(h, c, value, mode) ==
  IF TailHasRoom(h, c)
  THEN
    Bind(MakeMut(h, External(c.tail)), LAMBDA mm :
      [h |-> [mm.h EXCEPT ![mm.id].items = Append(@, value)],
       c |-> [c EXCEPT !.tail = mm.id, !.len = @ + 1],
       err |-> OK])
  ELSE
    Bind(ArcNew(h, <<value>>), LAMBDA a :
      LET old_tail == External(c.tail)
          c1 == [c EXCEPT !.tail = a.id]
      IN IF c.len = NODE_SIZE
         THEN [h |-> DropNode(a.h, c.root),
               c |-> [c1 EXCEPT !.root = old_tail, !.len = @ + 1],
               err |-> OK]
         ELSE IF RootHasRoom(a.h, c)
         THEN
           Bind(MakeMut(a.h, c.root), LAMBDA mm :
           Bind(push_external(mm.h, mm.id, c.depth, old_tail, mode), LAMBDA r :
             [h |-> r.h,
              c |-> [c1 EXCEPT !.root = Internal(mm.id), !.len = @ + 1],
              err |-> r.err]))
         ELSE
           Bind(ArcNew(a.h, <<c.root>>), LAMBDA b :
           Bind(new_path(b.h, b.id, c.depth + 1, old_tail, mode), LAMBDA r :
             [h |-> r.h,
              c |-> [c1 EXCEPT !.root = Internal(b.id), !.depth = @ + 1,
                               !.len = @ + 1],
              err |-> r.err])))
(***************************************************************************)
(* pop                                                                     *)
(***************************************************************************)
PopFail(h, msg) == [h |-> h, node |-> Empty, ext |-> Empty, empty |-> FALSE, err |-> msg]

\* The tail of pop_external without the flag: the emptied cell is replaced by
\* Empty but the caller is not told.
PopDoneUnflagged(h, n, ext) ==
  IF h[n].items = <<>>
  THEN [h |-> DropNode(h, Internal(n)), node |-> Empty, ext |-> ext,
        empty |-> FALSE, err |-> OK]
  ELSE [h |-> h, node |-> Internal(n), ext |-> ext, empty |-> FALSE, err |-> OK]

\* The tail of pop_external, lines 148-152: the cell that became empty is
\* replaced by Empty (its Arc is dropped) and the flag goes up.
PopDone(h, n, ext) ==
  IF h[n].items = <<>>
  THEN [h |-> DropNode(h, Internal(n)), node |-> Empty, ext |-> ext,
        empty |-> TRUE, err |-> OK]
  ELSE [h |-> h, node |-> Internal(n), ext |-> ext, empty |-> FALSE, err |-> OK]

RECURSIVE pop_external(_, _, _)
pop_external(h, node, depth) ==
  IF node.tag # "Internal" THEN PopFail(h, "expected internal node")
  ELSE
    Bind(MakeMut(h, node), LAMBDA mm :
      IF mm.h[mm.id].items = <<>>
      THEN PopFail(mm.h, "called Option::unwrap() on a None value")
      ELSE
        LET n == mm.id
            popped == Last(mm.h[mm.id].items)
            h1 == [mm.h EXCEPT ![mm.id].items = Front(@)]
        IN IF depth = 1 THEN PopDone(h1, n, popped)
           ELSE IF depth = 0
           THEN PopFail(h1, "attempt to subtract with overflow")
           ELSE
             Bind(pop_external(h1, popped, depth - 1), LAMBDA r :
               IF r.err # OK THEN r
               ELSE IF r.empty THEN PopDone(r.h, n, r.ext)
               ELSE PopDone([r.h EXCEPT ![n].items = Append(@, r.node)], n, r.ext)))

\* A pop that never collapses the root.
root_kept(h, c) == [h |-> h, c |-> c]

\* pop, lines 120-129: an Internal root left with one child is replaced by
\* that child.
root_killer(h, c) ==
  IF c.root.tag = "Internal" /\ Len(h[c.root.ptr].items) = 1
  THEN
    Bind(MakeMut(h, c.root), LAMBDA mm :
      [h |-> DropNode([mm.h EXCEPT ![mm.id].items = <<>>], Internal(mm.id)),
       c |-> [c EXCEPT !.root = Last(mm.h[mm.id].items), !.depth = @ - 1]])
  ELSE [h |-> h, c |-> c]

\* pop, lines 99-131: what pop does once the vector is known not to be empty.
pop_nonempty(h, c) ==
  IF c.len = 1 \/ Len(h[c.tail].items) > 1
  THEN
    Bind(MakeMut(h, External(c.tail)), LAMBDA mm :
      LET t == mm.h[mm.id].items
      IN [h |-> [mm.h EXCEPT ![mm.id].items = IF t = <<>> THEN t ELSE Front(t)],
          c |-> [c EXCEPT !.tail = mm.id, !.len = @ - 1],
          out |-> IF t = <<>> THEN None ELSE Some(Last(t)),
          err |-> OK])
  ELSE IF h[c.tail].items = <<>>
  THEN [h |-> h, c |-> c, out |-> None, err |-> "called Option::unwrap() on a None value"]
  ELSE
    LET value == Last(h[c.tail].items)
    IN IF c.len - 1 = NODE_SIZE
       THEN
         IF c.root.tag # "External"
         THEN [h |-> h, c |-> c, out |-> None, err |-> "expected external node"]
         ELSE [h |-> DropNode(h, External(c.tail)),
               c |-> [c EXCEPT !.depth = 0, !.len = @ - 1, !.tail = c.root.ptr,
                               !.root = Empty],
               out |-> Some(value), err |-> OK]
       ELSE
         Bind(pop_external(h, c.root, c.depth), LAMBDA r :
           IF r.err # OK
           THEN [h |-> r.h, c |-> c, out |-> None, err |-> r.err]
           ELSE IF r.ext.tag # "External"
           THEN [h |-> r.h, c |-> c, out |-> None, err |-> "expected external node"]
           ELSE
             Bind(root_killer(DropNode(r.h, External(c.tail)),
                              [c EXCEPT !.root = r.node, !.tail = r.ext.ptr,
                                        !.len = @ - 1]),
                  LAMBDA k : [h |-> k.h, c |-> k.c, out |-> Some(value), err |-> OK]))

\* A pop without the test for the empty vector.
pop_unchecked(h, c) == pop_nonempty(h, c)

\* CowVec::pop
pop(h, c) ==
  IF c.len = 0 THEN [h |-> h, c |-> c, out |-> None, err |-> OK]
  ELSE pop_nonempty(h, c)

(***************************************************************************)
(* get, get_mut, swap_remove                                               *)
(***************************************************************************)
Pow2(n) == 2 ^ n

\* index & MASK and (index >> shift) & MASK
Low(index) == index % NODE_SIZE
SubIndex(index, shift) == (index \div Pow2(shift)) % NODE_SIZE

\* CowVec::tail_offset (an unsigned subtraction)
tail_offset(h, c) == c.len - Len(h[c.tail].items)

RECURSIVE get_external(_, _, _, _)
get_external(h, node, index, shift) ==
  IF node.tag = "External"
  THEN IF Low(index) < Len(h[node.ptr].items)
       THEN [val |-> h[node.ptr].items[Low(index) + 1], err |-> OK]
       ELSE [val |-> 0, err |-> "index out of bounds"]
  ELSE IF node.tag = "Internal"
  THEN IF SubIndex(index, shift) >= Len(h[node.ptr].items)
       THEN [val |-> 0, err |-> "index out of bounds"]
       ELSE IF shift < SHIFT
       THEN [val |-> 0, err |-> "attempt to subtract with overflow"]
       ELSE get_external(h, h[node.ptr].items[SubIndex(index, shift) + 1],
                         index, shift - SHIFT)
  ELSE [val |-> 0, err |-> "entered unreachable code"]

\* CowVec::get
get(h, c, index) ==
  IF tail_offset(h, c) < 0
  THEN [val |-> 0, err |-> "attempt to subtract with overflow"]
  ELSE IF index >= tail_offset(h, c)
  THEN IF Low(index) < Len(h[c.tail].items)
       THEN [val |-> h[c.tail].items[Low(index) + 1], err |-> OK]
       ELSE [val |-> 0, err |-> "index out of bounds"]
  ELSE get_external(h, c.root, index, c.depth * SHIFT)

\* get_external_mut followed by the caller's write of w through the
\* reference: [h, node, old, err], node being the slot after make_mut.
RECURSIVE get_external_mut(_, _, _, _, _)
get_external_mut(h, node, index, shift, w) ==
  IF node.tag = "External"
  THEN
    Bind(MakeMut(h, node), LAMBDA mm :
      IF Low(index) < Len(mm.h[mm.id].items)
      THEN [h |-> [mm.h EXCEPT ![mm.id].items = [@ EXCEPT ![Low(index) + 1] = w]],
            node |-> External(mm.id),
            old |-> mm.h[mm.id].items[Low(index) + 1], err |-> OK]
      ELSE [h |-> mm.h, node |-> External(mm.id), old |-> 0,
            err |-> "index out of bounds"])
  ELSE IF node.tag = "Internal"
  THEN
    Bind(MakeMut(h, node), LAMBDA mm :
      LET sub_index == SubIndex(index, shift)
      IN IF sub_index >= Len(mm.h[mm.id].items)
         THEN [h |-> mm.h, node |-> Internal(mm.id), old |-> 0,
               err |-> "index out of bounds"]
         ELSE IF shift < SHIFT
         THEN [h |-> mm.h, node |-> Internal(mm.id), old |-> 0,
               err |-> "attempt to subtract with overflow"]
         ELSE
           Bind(get_external_mut(mm.h, mm.h[mm.id].items[sub_index + 1],
                                 index, shift - SHIFT, w), LAMBDA r :
             [h |-> [r.h EXCEPT ![mm.id].items = [@ EXCEPT ![sub_index + 1] = r.node]],
              node |-> Internal(mm.id), old |-> r.old, err |-> r.err]))
  ELSE [h |-> h, node |-> node, old |-> 0, err |-> "entered unreachable code"]

\* CowVec::get_mut and the write `*v.get_mut(index) = w`
get_mut(h, c, index, w) ==
  IF tail_offset(h, c) < 0
  THEN [h |-> h, c |-> c, old |-> 0, err |-> "attempt to subtract with overflow"]
  ELSE IF index >= tail_offset(h, c)
  THEN
    Bind(MakeMut(h, External(c.tail)), LAMBDA mm :
      LET c1 == [c EXCEPT !.tail = mm.id]
      IN IF Low(index) < Len(mm.h[mm.id].items)
         THEN [h |-> [mm.h EXCEPT ![mm.id].items = [@ EXCEPT ![Low(index) + 1] = w]],
               c |-> c1, old |-> mm.h[mm.id].items[Low(index) + 1], err |-> OK]
         ELSE [h |-> mm.h, c |-> c1, old |-> 0, err |-> "index out of bounds"])
  ELSE
    Bind(get_external_mut(h, c.root, index, c.depth * SHIFT, w), LAMBDA r :
      [h |-> r.h, c |-> [c EXCEPT !.root = r.node], old |-> r.old, err |-> r.err])

\* CowVec::swap_remove
swap_remove(h, c, index) ==
  Bind(pop(h, c), LAMBDA p :
    IF p.err # OK THEN [h |-> p.h, c |-> p.c, out |-> 0, err |-> p.err]
    ELSE IF ~p.out.some
    THEN [h |-> p.h, c |-> p.c, out |-> 0,
          err |-> "called Option::unwrap() on a None value"]
    ELSE IF index = p.c.len
    THEN [h |-> p.h, c |-> p.c, out |-> p.out.val, err |-> OK]
    ELSE
      Bind(get_mut(p.h, p.c, index, p.out.val), LAMBDA g :
        [h |-> g.h, c |-> g.c, out |-> g.old, err |-> g.err]))
(***************************************************************************)
(* The program: calls on the CowVec values                                 *)
(***************************************************************************)
Call(op, k, idx, val, out) == [op |-> op, vec |-> k, idx |-> idx, val |-> val, out |-> out]

Init ==
  /\ heap = new(<<>>).h
  /\ vecs = [k \in Vecs |-> IF k = 1 THEN new(<<>>).c ELSE NoVec]
  /\ status = OK
  /\ ret = Call("new", 1, 0, 0, None)
  /\ build \in {"panic", "drop"}
  /\ edits = 0
  /\ steps = 0
  /\ logical = [k \in Vecs |-> <<>>]
  /\ pp = [phase |-> "push", pushed |-> <<>>, popped |-> 0]

\* A call that returned r = [h, c, err]: the state it leaves, or the panic.
\* s is the sequence the call should leave.
Return(k, r, call, s) ==
  /\ ret' = call
  /\ IF r.err = OK
     THEN /\ heap' = r.h
          /\ vecs' = [vecs EXCEPT ![k] = r.c]
          /\ logical' = [logical EXCEPT ![k] = s]
          /\ status' = OK
     ELSE /\ UNCHANGED <<heap, vecs, logical>>
          /\ status' = r.err

Live(k) == status = OK /\ vecs[k].live

\* The test suite pushes the index: v.push(i) for i in 0..n.
PushVal(c) == c.len

\* What swap_remove(i) should leave of s.
SwapRemoved(s, i) ==
  IF i + 1 >= Len(s) THEN Front(s)
  ELSE [Front(s) EXCEPT ![i + 1] = Last(s)]

Push(k, maxlen) ==
  /\ Live(k)
  /\ vecs[k].len < maxlen
  /\ \E r \in {push(heap, vecs[k], PushVal(vecs[k]), build)} :
       Return(k, r, Call("push", k, 0, PushVal(vecs[k]), None),
              Append(logical[k], PushVal(vecs[k])))

Pop(k) ==
  /\ Live(k)
  /\ \E r \in {pop(heap, vecs[k])} :
       Return(k, r, Call("pop", k, 0, 0, IF r.err = OK THEN r.out ELSE None),
              IF logical[k] = <<>> THEN <<>> ELSE Front(logical[k]))

Get(k, i) ==
  /\ Live(k)
  /\ \E r \in {get(heap, vecs[k], i)} :
       /\ ret' = Call("get", k, i, 0, IF r.err = OK THEN Some(r.val) ELSE None)
       /\ status' = r.err
       /\ UNCHANGED <<heap, vecs, logical>>

GetMut(k, i, w) ==
  /\ Live(k)
  /\ edits < MaxEdits
  /\ edits' = edits + 1
  /\ \E r \in {get_mut(heap, vecs[k], i, w)} :
       Return(k, r, Call("get_mut", k, i, w, None),
              IF i < Len(logical[k]) THEN [logical[k] EXCEPT ![i + 1] = w]
              ELSE logical[k])

SwapRemove(k, i) ==
  /\ Live(k)
  /\ edits < MaxEdits
  /\ edits' = edits + 1
  /\ \E r \in {swap_remove(heap, vecs[k], i)} :
       Return(k, r, Call("swap_remove", k, i, 0,
                         IF r.err = OK THEN Some(r.out) ELSE None),
              IF logical[k] = <<>> THEN <<>> ELSE SwapRemoved(logical[k], i))

\* #[derive(Clone)]: the new value shares root and tail with the source.
Clone(k, k2) ==
  /\ Live(k)
  /\ ~vecs[k2].live
  /\ heap' = NodeClone(NodeClone(heap, vecs[k].root), External(vecs[k].tail))
  /\ vecs' = [vecs EXCEPT ![k2] = vecs[k]]
  /\ logical' = [logical EXCEPT ![k2] = logical[k]]
  /\ ret' = Call("clone", k, k2, 0, None)
  /\ UNCHANGED status

\* What a CowVec holds, read through len and get: the length and every slot.
HoldsIn(h, c, s) ==
  /\ c.len = Len(s)
  /\ \A i \in 0 .. (Len(s) - 1) : get(h, c, i) = [val |-> s[i + 1], err |-> OK]

Holds(k, s) == HoldsIn(heap, vecs[k], s)

\* Calls are counted once a write or a swap_remove has happened, and once
\* the CowVec no longer holds what it should.
After == IF edits = 0 /\ Holds(1, logical[1]) THEN steps' = steps
         ELSE steps < MaxAfter /\ steps' = steps + 1

InRange(k) == 0 .. (vecs[k].len - 1)
AnyIndex(k) == 0 .. (vecs[k].len + NODE_SIZE)

\* One CowVec, any interleaving of calls within their contracts.
Next ==
  \/ After /\ Push(1, MaxLen) /\ UNCHANGED <<build, edits, pp>>
  \/ After /\ Pop(1) /\ UNCHANGED <<build, edits, pp>>
  \/ \E i \in InRange(1) : After /\ GetMut(1, i, WriteVal) /\ UNCHANGED <<build, pp>>
  \/ \E i \in InRange(1) : After /\ SwapRemove(1, i) /\ UNCHANGED <<build, pp>>

Spec == Init /\ [][Next]_vars

\* One short CowVec, calls with any index, in range or past the end.
NextRange ==
  \/ Push(1, RangeMaxLen) /\ UNCHANGED <<build, edits, steps, pp>>
  \/ Pop(1) /\ UNCHANGED <<build, edits, steps, pp>>
  \/ \E i \in AnyIndex(1) : Get(1, i) /\ UNCHANGED <<build, edits, steps, pp>>
  \/ \E i \in AnyIndex(1) : GetMut(1, i, WriteVal) /\ UNCHANGED <<build, steps, pp>>
  \/ \E i \in 0 .. vecs[1].len : SwapRemove(1, i) /\ UNCHANGED <<build, steps, pp>>

SpecRange == Init /\ [][NextRange]_vars

\* Clones: one CowVec grows, clones are taken, then a few calls on any of them.
Cloned == \E k \in Vecs : k # 1 /\ vecs[k].live

Step == steps < CowMaxSteps /\ steps' = steps + 1

NextCow ==
  \/ ~Cloned /\ Push(1, CowMaxLen) /\ UNCHANGED <<build, edits, steps, pp>>
  \/ \E k \in Vecs, k2 \in Vecs : Clone(k, k2) /\ UNCHANGED <<build, edits, steps, pp>>
  \/ \E k \in Vecs : Cloned /\ Step /\ Push(k, CowMaxLen + CowMaxSteps)
                     /\ UNCHANGED <<build, edits, pp>>
  \/ \E k \in Vecs : Cloned /\ Step /\ Pop(k) /\ UNCHANGED <<build, edits, pp>>
  \/ \E k \in Vecs : \E i \in InRange(k) :
        Cloned /\ Step /\ GetMut(k, i, WriteVal) /\ UNCHANGED <<build, pp>>
  \/ \E k \in Vecs : \E i \in InRange(k) :
        Cloned /\ Step /\ SwapRemove(k, i) /\ UNCHANGED <<build, pp>>

SpecCow == Init /\ [][NextCow]_vars

\* A write through get_mut, counted against PathMaxWrites.
Write(k, i, w) ==
  /\ Live(k)
  /\ steps < PathMaxWrites
  /\ steps' = steps + 1
  /\ \E r \in {get_mut(heap, vecs[k], i, w)} :
       Return(k, r, Call("get_mut", k, i, w, None),
              [logical[k] EXCEPT ![i + 1] = w])

\* One CowVec grows and is cloned once; the first write goes through the
\* clone, later ones through either of the two.
NextPath ==
  \/ ~Cloned /\ Push(1, CowMaxLen) /\ UNCHANGED <<build, edits, steps, pp>>
  \/ ~Cloned /\ Clone(1, 2) /\ UNCHANGED <<build, edits, steps, pp>>
  \/ \E k \in {1, 2} : \E i \in InRange(k) :
        /\ Cloned /\ (steps > 0 \/ k = 2)
        /\ Write(k, i, WriteVal) /\ UNCHANGED <<build, edits, pp>>

SpecPath == Init /\ [][NextPath]_vars

\* The push_pop test for every n: n pushes, then n + 1 pops.
PPPush ==
  /\ pp.phase = "push"
  /\ Push(1, MaxLen)
  /\ pp' = [pp EXCEPT !.pushed = Append(@, ret'.val)]
  /\ UNCHANGED <<build, edits, steps>>

PPPop ==
  /\ pp.popped <= Len(pp.pushed)
  /\ Pop(1)
  /\ pp' = [pp EXCEPT !.phase = "pop", !.popped = @ + 1]
  /\ UNCHANGED <<build, edits, steps>>

NextPushPop == PPPush \/ PPPop

SpecPushPop == Init /\ [][NextPushPop]_vars
(***************************************************************************)
(* The trie under a root, read off the heap                                *)
(***************************************************************************)
RECURSIVE LeafIds(_, _)
RECURSIVE LeafIdsOfAll(_, _)
\* The External cells under a node, left to right.
LeafIds(h, n) ==
  IF n.tag = "External" THEN <<n.ptr>>
  ELSE IF n.tag = "Internal" THEN LeafIdsOfAll(h, h[n.ptr].items)
  ELSE <<>>
LeafIdsOfAll(h, items) ==
  IF items = <<>> THEN <<>>
  ELSE LeafIds(h, Head(items)) \o LeafIdsOfAll(h, Tail(items))

RECURSIVE SumLens(_, _)
SumLens(h, ids) ==
  IF ids = <<>> THEN 0 ELSE Len(h[Head(ids)].items) + SumLens(h, Tail(ids))

\* Elements stored in the External leaves reachable from the root.
InRoot(h, c) == SumLens(h, LeafIds(h, c.root))

\* Every External node under n is full, every Internal node off the rightmost
\* spine has NODE_SIZE children, and no child is Empty.
RECURSIVE Packed(_, _, _)
Packed(h, n, spine) ==
  IF n.tag = "External" THEN Len(h[n.ptr].items) = NODE_SIZE
  ELSE IF n.tag = "Internal"
  THEN LET kids == h[n.ptr].items
       IN /\ spine \/ Len(kids) = NODE_SIZE
          /\ \A j \in 1 .. Len(kids) : Packed(h, kids[j], spine /\ j = Len(kids))
  ELSE FALSE

\* The k-th leaf from the left is where indices k*B .. k*B+B-1 are routed.
LeavesInOrder(h, c) ==
  LET ids == LeafIds(h, c.root)
  IN \A k \in 1 .. Len(ids) : \A j \in 0 .. (Len(h[ids[k]].items) - 1) :
       get_external(h, c.root, (k - 1) * NODE_SIZE + j, c.depth * SHIFT)
         = [val |-> h[ids[k]].items[j + 1], err |-> OK]

Mutating == {"push", "pop", "get_mut", "swap_remove"}

(***************************************************************************)
(* Claims                                                                  *)
(***************************************************************************)

\* C1: after n pushes from a new CowVec no call has been fatal, the k-th pop
\* returns the (n-k+1)-th value pushed, and the (n+1)-th pop returns None.
C1_PushPopInverse ==
  /\ status = OK
  /\ pp.phase = "pop" =>
       ret.out = IF pp.popped <= Len(pp.pushed)
                 THEN Some(pp.pushed[Len(pp.pushed) - pp.popped + 1])
                 ELSE None

\* C2: push(v) on a CowVec that should hold s returns normally and leaves a
\* CowVec of length |s| + 1 whose slot |s| reads v and whose slots i < |s|
\* read s[i].
C2_PushContract ==
  [][ret'.op = "push" =>
       /\ status' = OK
       /\ HoldsIn(heap', vecs'[ret'.vec], Append(logical[ret'.vec], ret'.val))]_vars

\* C3: pop() on a CowVec that should hold a non-empty s returns Some(last of
\* s) and leaves a CowVec of length |s| - 1 whose slots read s[i].
C3_PopContract ==
  [][(ret'.op = "pop" /\ logical[ret'.vec] # <<>>) =>
       /\ status' = OK
       /\ ret'.out = Some(Last(logical[ret'.vec]))
       /\ HoldsIn(heap', vecs'[ret'.vec], Front(logical[ret'.vec]))]_vars

\* C4: writing w through get_mut(i), i < len, makes slot i read w and leaves
\* every other slot and the length as they were.
C4_GetMutFrame ==
  [][(ret'.op = "get_mut" /\ ret'.idx < vecs[ret'.vec].len) =>
       /\ status' = OK
       /\ HoldsIn(heap', vecs'[ret'.vec],
                  [logical[ret'.vec] EXCEPT ![ret'.idx + 1] = ret'.val])]_vars

\* C5: swap_remove(i), i < len, returns s[i] and leaves a CowVec one shorter in
\* which slot i reads the former last element and every other slot is as it
\* was.
C5_SwapRemove ==
  [][(ret'.op = "swap_remove" /\ ret'.idx < vecs[ret'.vec].len) =>
       /\ status' = OK
       /\ ret'.out = Some(logical[ret'.vec][ret'.idx + 1])
       /\ HoldsIn(heap', vecs'[ret'.vec],
                  SwapRemoved(logical[ret'.vec], ret'.idx))]_vars

C7_EmptyPop ==
  /\ [](\A k \in Vecs : vecs[k].len >= 0)
  /\ [][(ret'.op = "pop" /\ vecs[ret'.vec].len = 0) =>
          /\ status' = OK
          /\ ret'.out = None
          /\ vecs' = vecs
          /\ heap' = heap]_vars

\* An empty pop on a CowVec that a swap_remove or pops had emptied after a
\* write or a swap_remove.
C7_Witness ==
  /\ status = OK
  /\ ret.op = "pop" /\ ret.out = None
  /\ vecs[1].len = 0
  /\ edits > 0

\* C8: get(i) and get_mut(i) with i >= len end in a fatal error.
C8_OutOfRangeFatal ==
  (ret.op \in {"get", "get_mut"} /\ ret.idx >= vecs[ret.vec].len) => status # OK

\* C9: under the root every External node holds NODE_SIZE elements, every
\* Internal node off the rightmost spine has NODE_SIZE children, and the k-th
\* leaf from the left is the one indices k*B .. k*B+B-1 are routed to.
C9_LeftPacked ==
  \A k \in Vecs :
    (vecs[k].live /\ vecs[k].root.tag # "Empty") =>
      /\ Packed(heap, vecs[k].root, TRUE)
      /\ LeavesInOrder(heap, vecs[k])

\* A depth-2 trie with a full Internal node off the spine, after a
\* swap_remove or a write.
C9_Witness ==
  /\ status = OK
  /\ edits > 0
  /\ vecs[1].depth = 2
  /\ Len(heap[vecs[1].root.ptr].items) = 2
  /\ Len(heap[heap[vecs[1].root.ptr].items[1].ptr].items) = NODE_SIZE

\* C10: the tail holds at most NODE_SIZE elements and len is the number of
\* elements in the leaves under the root plus the length of the tail.
C10_LengthAccounting ==
  \A k \in Vecs :
    vecs[k].live =>
      /\ Len(heap[vecs[k].tail].items) <= NODE_SIZE
      /\ vecs[k].len = InRoot(heap, vecs[k]) + Len(heap[vecs[k].tail].items)

(***************************************************************************)
(* Shape of the trie: depth, branches, sentinels                           *)
(***************************************************************************)
\* Every path from n to an External leaf passes through exactly d Internal
\* nodes.
RECURSIVE DepthOk(_, _, _)
DepthOk(h, n, d) ==
  IF n.tag = "External" THEN d = 0
  ELSE IF n.tag = "Internal"
  THEN /\ d > 0
       /\ \A j \in 1 .. Len(h[n.ptr].items) : DepthOk(h, h[n.ptr].items[j], d - 1)
  ELSE FALSE

\* The panics of a traversal that met the wrong variant, no child or no slot.
NarrowingPanics ==
  {"expected internal node", "expected external node", "entered unreachable code",
   "called Option::unwrap() on a None value", "index out of bounds"}

\* The contents of the leaves under the root, left to right.
LeafSeqs(h, c) ==
  LET ids == LeafIds(h, c.root)
  IN [i \in 1 .. Len(ids) |-> h[ids[i]].items]

\* C11: every path from the root to a leaf passes through exactly depth
\* Internal nodes (depth is 0 when the root is Empty or External), and no call
\* made within its contract ends in a narrowing panic, an unwrap of None or
\* an out-of-bounds child index.
C11_DepthConsistent ==
  /\ status \notin NarrowingPanics
  /\ \A k \in Vecs :
       vecs[k].live =>
         IF vecs[k].root.tag = "Empty" THEN vecs[k].depth = 0
         ELSE DepthOk(heap, vecs[k].root, vecs[k].depth)

\* C12: a push that overflows the tail while the root is Internal with fewer
\* than NODE_SIZE children returns normally and leaves the old tail as the
\* next leaf after the leaves already there; no node holds more than NODE_SIZE
\* children.
C12_NewBranch ==
  [][(/\ ret'.op = "push"
      /\ Len(heap[vecs[ret'.vec].tail].items) = NODE_SIZE
      /\ vecs[ret'.vec].root.tag = "Internal"
      /\ Len(heap[vecs[ret'.vec].root.ptr].items) < NODE_SIZE) =>
       /\ status' = OK
       /\ \A id \in DOMAIN heap' : Len(heap'[id].items) <= NODE_SIZE
       /\ LeafSeqs(heap', vecs'[ret'.vec])
            = Append(LeafSeqs(heap, vecs[ret'.vec]),
                     heap[vecs[ret'.vec].tail].items)]_vars

\* C13: a push raises depth by at most 1; it raises it exactly when the tail
\* overflows onto a root whose tree is full (NODE_SIZE^(depth+1) elements), and
\* then the old root, a complete subtree, is child 0 of the new root.
C13_DepthGrowth ==
  [][ret'.op = "push" =>
       LET c == vecs[ret'.vec]
           c2 == vecs'[ret'.vec]
           full == /\ c.root.tag # "Empty"
                   /\ InRoot(heap, c) = NODE_SIZE ^ (c.depth + 1)
       IN /\ c2.depth \in {c.depth, c.depth + 1}
          /\ c2.depth = c.depth + 1 =>
               /\ full
               /\ Packed(heap', c.root, FALSE)
               /\ c2.root.tag = "Internal"
               /\ heap'[c2.root.ptr].items[1] = c.root
          /\ (full /\ Len(heap[c.tail].items) = NODE_SIZE) =>
               c2.depth = c.depth + 1]_vars

\* The push that took the trie from depth 1 to depth 2.
C13_Witness ==
  /\ status = OK
  /\ ret.op = "push"
  /\ vecs[1].depth = 2
  /\ vecs[1].len = NODE_SIZE * NODE_SIZE + NODE_SIZE + 1
  /\ Len(heap[heap[vecs[1].root.ptr].items[1].ptr].items) = NODE_SIZE
  /\ Len(heap[heap[vecs[1].root.ptr].items[2].ptr].items) = 1

\* C14: an Internal root has at least 2 children in every state; a pop lowers
\* depth by at most 1, and the root it leaves after a collapse is External at
\* depth 0 or Internal with at least 2 children.
C14_RootCollapse ==
  /\ [](\A k \in Vecs :
          (vecs[k].live /\ vecs[k].root.tag = "Internal") =>
            Len(heap[vecs[k].root.ptr].items) >= 2)
  /\ [][ret'.op = "pop" =>
          LET c == vecs[ret'.vec]
              c2 == vecs'[ret'.vec]
          IN /\ c2.depth \in {c.depth, c.depth - 1}
             /\ c2.depth = c.depth - 1 =>
                  /\ c.root.tag = "Internal"
                  /\ c2.root = heap[c.root.ptr].items[1]
                  /\ \/ c2.root.tag = "External" /\ c2.depth = 0
                     \/ /\ c2.root.tag = "Internal"
                        /\ Len(heap'[c2.root.ptr].items) >= 2]_vars

\* The pop that collapsed a depth-2 root onto its full first child.
C14_Witness ==
  /\ status = OK
  /\ ret.op = "pop" /\ ret.out.some
  /\ vecs[1].depth = 1
  /\ vecs[1].len = NODE_SIZE * NODE_SIZE + NODE_SIZE
  /\ Len(heap[vecs[1].root.ptr].items) = NODE_SIZE

(***************************************************************************)
(* Cells and paths                                                         *)
(***************************************************************************)
\* The cells get_external_mut visits from n for index.
RECURSIVE PathFrom(_, _, _, _)
PathFrom(h, n, index, shift) ==
  IF n.tag = "External" THEN {n.ptr}
  ELSE IF n.tag = "Internal" /\ SubIndex(index, shift) < Len(h[n.ptr].items)
                             /\ shift >= SHIFT
  THEN {n.ptr} \cup PathFrom(h, h[n.ptr].items[SubIndex(index, shift) + 1],
                             index, shift - SHIFT)
  ELSE IF n.tag = "Internal" THEN {n.ptr}
  ELSE {}

\* The cells get_mut(index) visits: the tail, or the path from the root.
PathIds(h, c, index) ==
  IF index >= tail_offset(h, c) THEN {c.tail}
  ELSE PathFrom(h, c.root, index, c.depth * SHIFT)

RECURSIVE CellsUnder(_, _)
CellsUnder(h, n) ==
  IF n.tag = "External" THEN {n.ptr}
  ELSE IF n.tag = "Internal"
  THEN {n.ptr} \cup UNION {CellsUnder(h, h[n.ptr].items[j]) :
                             j \in 1 .. Len(h[n.ptr].items)}
  ELSE {}

\* Every cell a CowVec reaches.
Cells(h, c) == CellsUnder(h, c.root) \cup {c.tail}

\* C15: a write through get_mut(i) allocates at most depth + 1 cells, all on
\* the path to slot i; every cell off that path is the same cell as before,
\* with the same contents, for the CowVec written and for the other one; a
\* second write along the path just written allocates nothing.
C15_PathOnlyCopy ==
  [][(ret'.op = "get_mut" /\ status' = OK) =>
       LET k == ret'.vec
           c == vecs[k]
           c2 == vecs'[k]
           fresh == DOMAIN heap' \ DOMAIN heap
           path == PathIds(heap', c2, ret'.idx)
       IN /\ fresh \subseteq path
          /\ Cardinality(fresh) <= c.depth + 1
          /\ Cells(heap', c2) \ path = Cells(heap, c) \ PathIds(heap, c, ret'.idx)
          /\ \A x \in Cells(heap', c2) \ path : heap'[x].items = heap[x].items
          /\ \A j \in Vecs \ {k} :
               /\ vecs'[j] = vecs[j]
               /\ vecs[j].live =>
                    \A x \in Cells(heap, vecs[j]) :
                      x \in DOMAIN heap' /\ heap'[x].items = heap[x].items
          /\ (ret.op = "get_mut" /\ ret.vec = k
              /\ PathIds(heap, c, ret.idx) = PathIds(heap, c, ret'.idx)) =>
               fresh = {}]_vars

\* Two writes went through the clone of a depth-2 CowVec into its first
\* branch: the roots are now two cells, the second branch is still one.
C15_Witness ==
  /\ status = OK
  /\ steps = PathMaxWrites
  /\ ret.op = "get_mut" /\ ret.vec = 2 /\ ret.idx < NODE_SIZE * NODE_SIZE
  /\ vecs[1].live /\ vecs[2].live /\ vecs[2].depth = 2
  /\ vecs[1].root.ptr # vecs[2].root.ptr
  /\ heap[vecs[1].root.ptr].items[2] = heap[vecs[2].root.ptr].items[2]
  /\ heap[heap[vecs[2].root.ptr].items[2].ptr].rc = 2
  /\ get(heap, vecs[1], ret.idx) = [val |-> ret.idx, err |-> OK]
  /\ get(heap, vecs[2], ret.idx) = [val |-> WriteVal, err |-> OK]

\* C16: swap_remove(i) with i equal to the length at the time of the call
\* (at least 1) returns the last element, is not fatal, shortens the CowVec
\* by 1 and leaves every remaining slot as it was.
C16_SwapRemoveAtLen ==
  [][(/\ ret'.op = "swap_remove"
      /\ vecs[ret'.vec].len >= 1
      /\ ret'.idx = vecs[ret'.vec].len) =>
       LET c == vecs[ret'.vec]
           c2 == vecs'[ret'.vec]
       IN /\ status' = OK
          /\ ret'.out = Some(get(heap, c, c.len - 1).val)
          /\ c2.len = c.len - 1
          /\ \A j \in 0 .. (c.len - 2) : get(heap', c2, j) = get(heap, c, j)]_vars

\* push(v) followed at once by pop() on CowVec c: what the pop returns and
\* the CowVec it leaves.
PushThenPop(h, c, v, mode) ==
  Bind(push(h, c, v, mode), LAMBDA r1 :
    IF r1.err # OK THEN [h |-> r1.h, c |-> r1.c, out |-> None, err |-> r1.err]
    ELSE pop(r1.h, r1.c))

\* C17: in every reachable state push(v) followed at once by pop() returns
\* Some(v) and leaves the length, the depth, the variant of the root and every
\* slot as they were before the push.
C17_PushPopRoundTrip ==
  \A k \in Vecs :
    Live(k) =>
      LET c == vecs[k]
          r == PushThenPop(heap, c, PushVal(c), build)
      IN /\ r.err = OK
         /\ r.out = Some(PushVal(c))
         /\ r.c.len = c.len
         /\ r.c.depth = c.depth
         /\ r.c.root.tag = c.root.tag
         /\ \A i \in 0 .. (c.len - 1) : get(r.h, r.c, i) = get(heap, c, i)

\* No Internal node under n has an Empty child.
RECURSIVE NoEmptyChild(_, _)
NoEmptyChild(h, n) ==
  n.tag = "Internal" =>
    \A j \in 1 .. Len(h[n.ptr].items) :
      /\ h[n.ptr].items[j].tag # "Empty"
      /\ NoEmptyChild(h, h[n.ptr].items[j])

\* C18: Empty is never a child of an Internal node, and a root that is not
\* Empty (a tail was grafted into it) is never Empty again.
C18_EmptySentinel ==
  /\ [](\A k \in Vecs : vecs[k].live => NoEmptyChild(heap, vecs[k].root))
  /\ [][\A k \in Vecs :
          (vecs[k].live /\ vecs[k].root.tag # "Empty") =>
            vecs'[k].root.tag # "Empty"]_vars

\* C18 as amended: Empty is never a child of an Internal node; the root is
\* Empty exactly while len <= NODE_SIZE, and a root that is not Empty becomes
\* Empty again only by the pop (alone or inside swap_remove) that moves an
\* External root back into the tail, leaving len = NODE_SIZE.
C18_EmptyOnlyRoot ==
  /\ [](\A k \in Vecs :
          vecs[k].live =>
            /\ NoEmptyChild(heap, vecs[k].root)
            /\ vecs[k].root.tag = "Empty" <=> vecs[k].len <= NODE_SIZE)
  /\ [][\A k \in Vecs :
          (vecs[k].live /\ vecs[k].root.tag # "Empty"
                        /\ vecs'[k].root.tag = "Empty") =>
            /\ ret'.op \in {"pop", "swap_remove"} /\ ret'.vec = k
            /\ vecs[k].root.tag = "External"
            /\ ret'.op = "pop" => vecs'[k].tail = vecs[k].root.ptr
            /\ Len(heap'[vecs'[k].tail].items) = NODE_SIZE
            /\ vecs'[k].len = NODE_SIZE]_vars

\* The pop that moved the External root back into the tail.
C18_Witness ==
  /\ status = OK
  /\ ret.op = "pop" /\ ret.out.some
  /\ vecs[1].root.tag = "Empty"
  /\ vecs[1].len = NODE_SIZE
  /\ Len(heap[vecs[1].tail].items) = NODE_SIZE

\* C19: the tail is empty exactly when len = 0; tail_offset is a multiple of
\* NODE_SIZE, the tail holds ((len - 1) mod NODE_SIZE) + 1 elements when
\* len > 0, and so an index i in tail_offset .. len - 1 selects slot
\* i - tail_offset of the tail.
C19_TailAlignment ==
  \A k \in Vecs :
    vecs[k].live =>
      LET c == vecs[k]
          t == Len(heap[c.tail].items)
      IN /\ t = 0 <=> c.len = 0
         /\ tail_offset(heap, c) >= 0
         /\ tail_offset(heap, c) % NODE_SIZE = 0
         /\ c.len > 0 => t = ((c.len - 1) % NODE_SIZE) + 1
         /\ \A i \in tail_offset(heap, c) .. (c.len - 1) :
              Low(i) = i - tail_offset(heap, c)

\* The pop that refilled the tail with a whole leaf of a depth-2 trie.
C19_Witness ==
  /\ status = OK
  /\ ret.op = "pop" /\ ret.out.some
  /\ vecs[1].depth = 2
  /\ Len(heap[vecs[1].tail].items) = NODE_SIZE
  /\ tail_offset(heap, vecs[1]) = vecs[1].len - NODE_SIZE
  /\ vecs[1].len > NODE_SIZE * NODE_SIZE + NODE_SIZE
====
